---- MODULE Spec2Model ----
(***************************************************************************)
(* A model of the express helper modules: the utility functions            *)
(* (normalizeType / acceptParams, compileETag, compileQueryParser,         *)
(* compileTrust) and the View class (constructor, lookup, resolve,         *)
(* render).                                                                *)
(*                                                                         *)
(* JavaScript strings are modelled as sequences of one-character strings,  *)
(* with JavaScript's 0-based indices, so that indexOf, lastIndexOf, slice  *)
(* and trim are computed and not assumed.                                  *)
(***************************************************************************)
EXTENDS Integers, Sequences, FiniteSets, TLC

VARIABLES
    \* ---- normalizeType / acceptParams
    str,        \* the argument of normalizeType
    index,      \* acceptParams: the scan index (0-based)
    ret,        \* acceptParams: the object being built
    apc,        \* "call" | "loop" | "done"
    \* ---- View constructor / lookup / resolve
    engines,    \* options.engines, the shared require() cache: ext -> engine
    nViews,     \* number of constructor calls made
    views,      \* <<ext, engine>> of every view constructed so far
    lastView,   \* the view the last construction has built, if it succeeded
    stats,      \* the paths the last construction has stat'ed, in order
    lastResult, \* outcome of the last construction
    lastCall,   \* arguments of the last construction
    loaded,     \* the extensions require() was called for, in order
    allOk,      \* every construction so far has succeeded
    \* ---- View.render
    rpc,          \* "idle" | "engine" | "returned" | "threw"
    sync,         \* the local variable sync of render
    tickQueue,    \* process.nextTick queue: renderTick closures
    pendingAsync, \* engine work that will call onRender later
    engineCalls,  \* the calls of onRender the engine has made
    callerCalls,  \* invocations of the caller's callback
    \* ---- compileETag / compileQueryParser / compileTrust
    cfun,       \* which compile function is called
    cin,        \* its argument
    cout,       \* its outcome
    canswer,    \* the last answer of the compiled trust predicate
    cpc         \* "call" | "done"

paramVars   == <<str, index, ret, apc>>
viewVars    == <<engines, nViews, views, lastView, stats, lastResult, lastCall, loaded, allOk>>
renderVars  == <<rpc, sync, tickQueue, pendingAsync, engineCalls, callerCalls>>
compileVars == <<cfun, cin, cout, canswer, cpc>>
vars == <<paramVars, viewVars, renderVars, compileVars>>

\* ------------------------------------------------------------------
\* Bounds
\* ------------------------------------------------------------------
MaxLen == 5        \* longest type string enumerated for acceptParams
MaxViews == 2      \* number of View constructions in one behaviour
MaxArgs == 2       \* longest argument list an engine passes to its callback
MaxCalls == 2      \* number of times an engine invokes its callback in one render
MaxHop == 3        \* largest hop index and hop count given to a trust predicate

\* ------------------------------------------------------------------
\* JavaScript string primitives on sequences of characters
\* ------------------------------------------------------------------
Min(a, b) == IF a < b THEN a ELSE b
Max(a, b) == IF a > b THEN a ELSE b

\* All sequences over S of length 0..n
SeqsUpTo(S, n) == UNION {[1..k -> S] : k \in 0..n}

\* String.prototype.indexOf(ch, from): 0-based position or -1
IndexOf(s, ch, from) ==
    LET hits == {i \in Max(from, 0)..(Len(s) - 1) : s[i + 1] = ch}
    IN  IF hits = {} THEN -1 ELSE CHOOSE i \in hits : \A j \in hits : i <= j

\* String.prototype.lastIndexOf(ch, from): 0-based position or -1
LastIndexOf(s, ch, from) ==
    LET hits == {i \in 0..Min(Max(from, 0), Len(s) - 1) : s[i + 1] = ch}
    IN  IF hits = {} THEN -1 ELSE CHOOSE i \in hits : \A j \in hits : i >= j

\* String.prototype.slice(a, b) for 0 <= a, b
Slice(s, a, b) == SubSeq(s, Min(a, Len(s)) + 1, Min(b, Len(s)))

\* String.prototype.trim (the only white space modelled is " ")
RECURSIVE TrimLeft(_)
TrimLeft(s) == IF s # <<>> /\ Head(s) = " " THEN TrimLeft(Tail(s)) ELSE s
RECURSIVE TrimRight(_)
TrimRight(s) ==
    IF s # <<>> /\ s[Len(s)] = " " THEN TrimRight(SubSeq(s, 1, Len(s) - 1)) ELSE s
Trim(s) == TrimRight(TrimLeft(s))


\* ------------------------------------------------------------------
\* normalizeType / acceptParams
\* ------------------------------------------------------------------
Alphabet == {"/", ";", "=", "q", " ", "1"}

\* The property name that a JavaScript object literal does not store
ProtoKey == <<"_", "_", "p", "r", "o", "t", "o", "_", "_">>

\* Longer type strings added to the enumerated ones
SampleTypes ==
    { <<"/", ";">> \o ProtoKey \o <<"=", "1">>,
      <<"1", "/", "1", ";", "q", "=", "1", ";", "1", "=", "q">>,
      <<"1", "/", "1", ";", " ", "1", " ", "=", " ", "1", "1", " ", ";", "1", "=", "q">> }

TypeStrings == SeqsUpTo(Alphabet, MaxLen) \cup SampleTypes

HasSlash(s) == IndexOf(s, "/", 0) # -1

\* Numbers as acceptParams produces them: a number, NaN, or no field at all
Num(n)    == [kind |-> "num", num |-> n]
NaN       == [kind |-> "nan", num |-> 0]
Undefined == [kind |-> "undefined", num |-> 0]

DigitVal(c) ==
    CASE c = "0" -> 0 [] c = "1" -> 1 [] c = "2" -> 2 [] c = "3" -> 3
      [] c = "4" -> 4 [] c = "5" -> 5 [] c = "6" -> 6 [] c = "7" -> 7
      [] c = "8" -> 8 [] c = "9" -> 9 [] OTHER -> -1

\* The value of the longest prefix of decimal digits of s, after acc
RECURSIVE DigitsValue(_, _)
DigitsValue(s, acc) ==
    IF s = <<>> \/ DigitVal(Head(s)) = -1 THEN acc
    ELSE DigitsValue(Tail(s), 10 * acc + DigitVal(Head(s)))

\* parseFloat on the strings of the model (no sign, point or exponent
\* occurs in them): leading white space is skipped, the longest numeric
\* prefix is converted, and NaN results when there is none.
ParseFloat(s) ==
    LET t == TrimLeft(s)
    IN  IF t = <<>> \/ DigitVal(Head(t)) = -1 THEN NaN ELSE Num(DigitsValue(t, 0))

EmptyParams == [k \in {} |-> <<>>]

\* ret.params[key] = value, where ret.params was created as {}: the
\* assignment to "__proto__" reaches the accessor inherited from
\* Object.prototype, which ignores a string, and stores no property.
SetParam(params, key, value) ==
    IF key = ProtoKey THEN params
    ELSE [k \in (DOMAIN params) \cup {key} |-> IF k = key THEN value ELSE params[k]]

\* const colonIndex = str.indexOf(';'); let index = colonIndex === -1 ? length : colonIndex
FirstIndex(s) ==
    LET colonIndex == IndexOf(s, ";", 0)
    IN  IF colonIndex = -1 THEN Len(s) ELSE colonIndex

SplitIndex(s, i) == IndexOf(s, "=", i)

EndIndex(s, i) ==
    LET colonIndex == IndexOf(s, ";", i)
    IN  IF colonIndex = -1 THEN Len(s) ELSE colonIndex

\* index = str.lastIndexOf(';', splitIndex - 1) + 1
\* (faulty variant: the + 1 is left out)
SkipTargetNoAdvance(s, splitIndex) == LastIndexOf(s, ";", splitIndex - 1)
SkipTarget(s, splitIndex) == LastIndexOf(s, ";", splitIndex - 1) + 1

\* the right-hand side of the assignment to ret.quality / ret.params
TakeParam(r, key, value) ==
    IF key = <<"q">>
    THEN [r EXCEPT !.quality = ParseFloat(value)]
    ELSE [r EXCEPT !.params = SetParam(@, key, value)]

MimeType    == <<"m", "/", "t">>
OctetStream == <<"o", "/", "s">>

\* normalizeType, type contains '/': enters acceptParams (lines 86-89)
NormalizeAccept ==
    /\ apc = "call"
    /\ HasSlash(str)
    /\ index' = FirstIndex(str)
    /\ ret' = [value   |-> Trim(Slice(str, 0, FirstIndex(str))),
               quality |-> Num(1),
               params  |-> EmptyParams]
    /\ apc' = "loop"
    /\ UNCHANGED <<str, viewVars, renderVars, compileVars>>

\* normalizeType, type without '/': mime.lookup(type) || 'application/octet-stream'
NormalizeMime ==
    /\ apc = "call"
    /\ ~HasSlash(str)
    /\ \E found \in BOOLEAN :
         ret' = [value   |-> IF found THEN MimeType ELSE OctetStream,
                 quality |-> Undefined,
                 params  |-> EmptyParams]
    /\ apc' = "done"
    /\ UNCHANGED <<str, index, viewVars, renderVars, compileVars>>

\* one iteration that finds no '=' in the current segment (lines 98-101)
AcceptParamsSkip ==
    /\ apc = "loop"
    /\ index < Len(str)
    /\ SplitIndex(str, index) # -1
    /\ SplitIndex(str, index) > EndIndex(str, index)
    /\ index' = SkipTarget(str, SplitIndex(str, index))
    /\ UNCHANGED <<str, ret, apc, viewVars, renderVars, compileVars>>

\* one iteration that reads key=value (lines 103-112)
AcceptParamsTake ==
    /\ apc = "loop"
    /\ index < Len(str)
    /\ SplitIndex(str, index) # -1
    /\ ~(SplitIndex(str, index) > EndIndex(str, index))
    /\ LET splitIndex == SplitIndex(str, index)
           endIndex   == EndIndex(str, index)
           key        == Trim(Slice(str, index, splitIndex))
           value      == Trim(Slice(str, splitIndex + 1, endIndex))
       IN  /\ ret' = TakeParam(ret, key, value)
           /\ index' = endIndex + 1
    /\ UNCHANGED <<str, apc, viewVars, renderVars, compileVars>>

\* the loop ends: index >= length, or the break at line 93
AcceptParamsReturn ==
    /\ apc = "loop"
    /\ (index >= Len(str) \/ SplitIndex(str, index) = -1)
    /\ apc' = "done"
    /\ UNCHANGED <<str, index, ret, viewVars, renderVars, compileVars>>

NextParams ==
    \/ NormalizeAccept
    \/ NormalizeMime
    \/ AcceptParamsSkip
    \/ AcceptParamsTake
    \/ AcceptParamsReturn


\* ------------------------------------------------------------------
\* View: constructor, lookup, resolve
\* ------------------------------------------------------------------
\* View names are relative paths without "." and ".." components; a path
\* is a sequence of components.
Names ==
    { <<"a">>, <<"a", ".", "a">>, <<"a", ".", "b">>, <<".", "a">>,
      <<"a", ".">>, <<"d", ".", "b", "/", "a">> }

\* options.defaultEngine; <<>> stands for a missing (falsy) setting
DefaultEngines == { <<>>, <<"a">>, <<".", "b">> }

R1 == << <<"r">> >>
R2 == << <<"s">> >>
NoPath == <<>>

\* options.root: a string, an array of strings, or missing
RootString(p)  == [kind |-> "string",    one |-> p,      many |-> <<>>]
RootArray(ps)  == [kind |-> "array",     one |-> NoPath, many |-> ps]
RootUndefined  == [kind |-> "undefined", one |-> NoPath, many |-> <<>>]
RootOptions    ==
    { RootString(R1), RootArray(<<R1, R2>>), RootArray(<<>>), RootUndefined }

Kinds == {"none", "file", "dir"}

\* the components of a relative path: the parts between its '/'
RECURSIVE SplitSlash(_, _)
SplitSlash(s, cur) ==
    IF s = <<>> THEN <<cur>>
    ELSE IF Head(s) = "/" THEN <<cur>> \o SplitSlash(Tail(s), <<>>)
    ELSE SplitSlash(Tail(s), Append(cur, Head(s)))

\* path.extname: within the last component, the text from the last '.',
\* unless there is no '.', the last '.' is the first character of the
\* component, or the component is ".."
Extname(name) ==
    LET seg      == Slice(name, LastIndexOf(name, "/", Len(name) - 1) + 1, Len(name))
        startDot == LastIndexOf(seg, ".", Len(seg) - 1)
    IN  IF startDot = -1 \/ startDot = 0 \/ seg = <<".", ".">>
        THEN <<>>
        ELSE Slice(seg, startDot, Len(seg))

\* path.basename(file, ext) on a single segment
BasenameExt(file, ext) ==
    IF ext = <<>> \/ Len(ext) > Len(file) THEN file
    ELSE IF file = ext THEN <<>>
    ELSE IF Slice(file, Len(file) - Len(ext), Len(file)) = ext
         THEN Slice(file, 0, Len(file) - Len(ext))
         ELSE file

\* path.resolve(root, name), path.dirname, path.basename, path.join
PathResolve(root, name) == root \o SplitSlash(name, <<>>)
Dirname(p)  == SubSeq(p, 1, Len(p) - 1)
Basename(p) == p[Len(p)]
Join2(dir, seg) == IF seg = <<>> THEN dir ELSE dir \o <<seg>>
Join3(dir, seg1, seg2) == Join2(Join2(dir, seg1), seg2)

IndexName == <<"i", "n", "d", "e", "x">>

\* the two candidates of resolve(dir, file)
Candidate1(dir, file) == Join2(dir, file)
Candidate2(dir, file, ext) == Join3(dir, BasenameExt(file, ext), IndexName \o ext)

\* stat && stat.isFile()
IsFile(kind) == kind = "file"

\* tryStat(path) as the lookup records it
Stat(p, fs) == [path |-> p, kind |-> fs[p]]

\* View.resolve(dir, file): the path found and the stat calls made
\* (faulty variant: the index file is tried first)
ResolveIndexFirst(dir, file, ext, fs) ==
    LET p1 == Candidate2(dir, file, ext)
        p2 == Candidate1(dir, file)
    IN  IF IsFile(fs[p1]) THEN [path |-> p1, stats |-> <<Stat(p1, fs)>>]
        ELSE IF IsFile(fs[p2]) THEN [path |-> p2, stats |-> <<Stat(p1, fs), Stat(p2, fs)>>]
        ELSE [path |-> NoPath, stats |-> <<Stat(p1, fs), Stat(p2, fs)>>]
Resolve(dir, file, ext, fs) ==
    LET p1 == Candidate1(dir, file)
        p2 == Candidate2(dir, file, ext)
    IN  IF IsFile(fs[p1]) THEN [path |-> p1, stats |-> <<Stat(p1, fs)>>]
        ELSE IF IsFile(fs[p2]) THEN [path |-> p2, stats |-> <<Stat(p1, fs), Stat(p2, fs)>>]
        ELSE [path |-> NoPath, stats |-> <<Stat(p1, fs), Stat(p2, fs)>>]

\* const roots = [].concat(this.root)
ConcatRoots(root) == IF root.kind = "array" THEN root.many ELSE <<root.one>>

\* the loop of View.lookup from roots[i] on: for (...; i < roots.length && !path; i++)
RECURSIVE LookupFrom(_, _, _, _, _, _)
LookupFrom(roots, i, name, ext, fs, acc) ==
    IF ~(i <= Len(roots) /\ acc.path = NoPath) THEN acc
    ELSE LET loc  == PathResolve(roots[i], name)
             dir  == Dirname(loc)
             file == Basename(loc)
             r    == Resolve(dir, file, ext, fs)
         IN  LookupFrom(roots, i + 1, name, ext, fs,
                        [path |-> r.path, stats |-> acc.stats \o r.stats])

Lookup(root, name, ext, fs) ==
    LookupFrom(ConcatRoots(root), 1, name, ext, fs, [path |-> NoPath, stats |-> <<>>])

\* every path a lookup of name below the given roots can stat
CandidatePaths(root, name, ext) ==
    LET roots == IF root.kind = "undefined" THEN <<>> ELSE ConcatRoots(root)
    IN  UNION { { Candidate1(Dirname(PathResolve(roots[i], name)),
                             Basename(PathResolve(roots[i], name))),
                  Candidate2(Dirname(PathResolve(roots[i], name)),
                             Basename(PathResolve(roots[i], name)), ext) }
                : i \in 1..Len(roots) }


\* the modules require() can find: "a" exports a function __express,
\* "b" exports no function __express, every other name is not installed
RequireModule(mod) ==
    IF mod = <<"a">> THEN [found |-> TRUE, isFunction |-> TRUE, fn |-> "a.__express"]
    ELSE IF mod = <<"b">> THEN [found |-> TRUE, isFunction |-> FALSE, fn |-> "undefined"]
    ELSE [found |-> FALSE, isFunction |-> FALSE, fn |-> "undefined"]

NoEngines == [e \in {} |-> "undefined"]
\* an engine registered by the application before any view is built
RegisteredB == [e \in {<<".", "b">>} |-> "custom"]

\* this.defaultEngine?.[0] !== '.' ? '.' + this.defaultEngine : this.defaultEngine
DefaultExt(de) == IF de = <<>> \/ Head(de) # "." THEN <<".">> \o de ELSE de

\* this.ext once line 76 is passed
ViewExt(name, de) == IF Extname(name) = <<>> THEN DefaultExt(de) ELSE Extname(name)

\* fileName once line 76 is passed
\* (faulty variant: the extension is appended to every name)
ViewFileNameAppend(name, de) == name \o ViewExt(name, de)
ViewFileName(name, de) ==
    IF Extname(name) = <<>> THEN name \o DefaultExt(de) ELSE name

\* !opts.engines[this.ext]
\* (faulty variant: the cache is not consulted)
NeedsLoadAlways(eng, ext) == TRUE
NeedsLoad(eng, ext) == ext \notin DOMAIN eng

\* opts.engines[this.ext] = fn
\* (faulty variant: the store precedes the typeof test)
StoreEngineEarly(eng, ext, m) == [e \in (DOMAIN eng) \cup {ext} |-> IF e = ext THEN m.fn ELSE eng[e]]
StoreEngine(eng, ext, m) ==
    IF m.found /\ m.isFunction
    THEN [e \in (DOMAIN eng) \cup {ext} |-> IF e = ext THEN m.fn ELSE eng[e]]
    ELSE eng

NoView == [name |-> <<>>, ext |-> <<>>, engine |-> "undefined", path |-> NoPath,
           fileName |-> <<>>, built |-> FALSE]

\* new View(name, {defaultEngine: de, engines: eng, ...}) up to line 94:
\* the outcome so far, the engines cache afterwards, the extensions
\* require() was called for, this.ext and fileName
BindEngine(name, de, eng) ==
    LET ext      == ViewExt(name, de)
        fileName == ViewFileName(name, de)
        load     == NeedsLoad(eng, ext)
        m        == RequireModule(Slice(ext, 1, Len(ext)))
        eng2     == IF load THEN StoreEngine(eng, ext, m) ELSE eng
    IN  IF Extname(name) = <<>> /\ de = <<>>
        THEN [result |-> "ErrNoDefaultEngine", engines |-> eng, required |-> <<>>,
              ext |-> <<>>, fileName |-> name]
        ELSE IF load /\ ~m.found
        THEN [result |-> "ErrCannotFindModule", engines |-> eng2, required |-> <<ext>>,
              ext |-> ext, fileName |-> fileName]
        ELSE IF load /\ ~m.isFunction
        THEN [result |-> "ErrNoViewEngine", engines |-> eng2, required |-> <<ext>>,
              ext |-> ext, fileName |-> fileName]
        ELSE [result |-> "ok", engines |-> eng2,
              required |-> IF load THEN <<ext>> ELSE <<>>,
              ext |-> ext, fileName |-> fileName]

\* the constructor from line 94 on, after BindEngine has given b: the
\* outcome, the view and the stat calls made.  path.resolve throws for a
\* root that is no string.
FinishView(b, name, root, fs) ==
    IF b.result # "ok"
    THEN [result |-> b.result, view |-> NoView, stats |-> <<>>]
    ELSE IF root.kind = "undefined"
    THEN [result |-> "ErrRootNotString", view |-> NoView, stats |-> <<>>]
    ELSE LET found == Lookup(root, b.fileName, b.ext, fs)
         IN  [result |-> "ok",
              view |-> [name |-> name, ext |-> b.ext, engine |-> b.engines[b.ext],
                        path |-> found.path, fileName |-> b.fileName, built |-> TRUE],
              stats |-> found.stats]

\* fs says "none" for every path the call has not stat'ed: what is at those
\* paths has no effect on the call, and one file system stands for all that
\* differ only there
Unobserved(fs, statCalls) ==
    \A p \in DOMAIN fs :
        (\A k \in 1..Len(statCalls) : statCalls[k].path # p) => fs[p] = "none"

\* One call of the constructor.  The file system is whatever it is at the
\* time of the call: fs gives the kind of every path the lookup can stat
\* (no path when the constructor throws before the lookup).
Construct ==
    /\ nViews < MaxViews
    /\ \E name \in Names, de \in DefaultEngines, root \in RootOptions :
        \E b \in {BindEngine(name, de, engines)} :
         \E fs \in [(IF b.result = "ok" THEN CandidatePaths(root, b.fileName, b.ext) ELSE {})
                      -> Kinds] :
          \E c \in {FinishView(b, name, root, fs)} :
               /\ Unobserved(fs, c.stats)
               /\ engines' = b.engines
               /\ loaded' = loaded \o b.required
               /\ lastResult' = c.result
               /\ lastCall' = [name |-> name, defaultEngine |-> de, root |-> root]
               /\ lastView' = c.view
               /\ stats' = c.stats
               /\ views' = IF c.result = "ok"
                           THEN views \cup {<<c.view.ext, c.view.engine>>} ELSE views
               /\ allOk' = (allOk /\ c.result = "ok")
               /\ nViews' = nViews + 1
    /\ UNCHANGED <<paramVars, renderVars, compileVars>>

NextView == Construct


\* ------------------------------------------------------------------
\* View.render
\* ------------------------------------------------------------------
ArgValues == {"err", "html"}
ArgLists == SeqsUpTo(ArgValues, MaxArgs)

\* let sync = true
\* (faulty variant: let sync = false)
SyncAtStartFalse == FALSE
SyncAtStart == TRUE

\* const args = new Array(arguments.length); for (...) args[i] = arguments[i]
\* (faulty variant: the loop stops one argument early)
CopyArgsDropLast(arguments) ==
    [i \in 1..Len(arguments) |-> IF i < Len(arguments) THEN arguments[i] ELSE "undefined"]
CopyArgs(arguments) == [i \in 1..Len(arguments) |-> arguments[i]]

NCalls == Len(engineCalls) + Len(pendingAsync)

\* render is entered: line 137, then this.engine(...) is called
RenderStart ==
    /\ rpc = "idle"
    /\ rpc' = "engine"
    /\ sync' = SyncAtStart
    /\ UNCHANGED <<tickQueue, pendingAsync, engineCalls, callerCalls,
                   paramVars, viewVars, compileVars>>

\* function onRender() called with the given arguments (lines 142-159)
OnRender(arguments) ==
    /\ engineCalls' = Append(engineCalls, [args |-> arguments, during |-> rpc])
    /\ IF ~sync
       THEN /\ callerCalls' = Append(callerCalls,
                  [args |-> arguments, id |-> Len(engineCalls) + 1, during |-> rpc])
            /\ UNCHANGED tickQueue
       ELSE /\ tickQueue' = Append(tickQueue,
                  [args |-> CopyArgs(arguments), id |-> Len(engineCalls) + 1])
            /\ UNCHANGED callerCalls

\* the engine invokes its callback inside the engine call
EngineCallbackSync ==
    /\ rpc = "engine"
    /\ NCalls < MaxCalls
    /\ \E arguments \in ArgLists : OnRender(arguments)
    /\ UNCHANGED <<rpc, sync, pendingAsync, paramVars, viewVars, compileVars>>

\* the engine starts work that will invoke its callback later
EngineDefer ==
    /\ rpc = "engine"
    /\ NCalls < MaxCalls
    /\ \E arguments \in ArgLists : pendingAsync' = Append(pendingAsync, arguments)
    /\ UNCHANGED <<rpc, sync, tickQueue, engineCalls, callerCalls,
                   paramVars, viewVars, compileVars>>

\* the engine call returns: line 161, then render returns
EngineReturn ==
    /\ rpc = "engine"
    /\ sync' = FALSE
    /\ rpc' = "returned"
    /\ UNCHANGED <<tickQueue, pendingAsync, engineCalls, callerCalls,
                   paramVars, viewVars, compileVars>>

\* the engine call throws: render is left by the exception, line 161 is not run
EngineThrow ==
    /\ rpc = "engine"
    /\ rpc' = "threw"
    /\ UNCHANGED <<sync, tickQueue, pendingAsync, engineCalls, callerCalls,
                   paramVars, viewVars, compileVars>>

\* the engine invokes its callback from a later turn of the event loop
EngineCallbackAsync ==
    /\ rpc \in {"returned", "threw"}
    /\ pendingAsync # <<>>
    /\ OnRender(Head(pendingAsync))
    /\ pendingAsync' = Tail(pendingAsync)
    /\ UNCHANGED <<rpc, sync, paramVars, viewVars, compileVars>>

\* function renderTick() runs from the process.nextTick queue (lines 156-158);
\* the queue is served only once the running call stack has unwound
RenderTick ==
    /\ rpc \in {"returned", "threw"}
    /\ tickQueue # <<>>
    /\ callerCalls' = Append(callerCalls,
           [args |-> Head(tickQueue).args, id |-> Head(tickQueue).id, during |-> rpc])
    /\ tickQueue' = Tail(tickQueue)
    /\ UNCHANGED <<rpc, sync, pendingAsync, engineCalls, paramVars, viewVars, compileVars>>

NextRender ==
    \/ RenderStart
    \/ EngineCallbackSync
    \/ EngineDefer
    \/ EngineReturn
    \/ EngineThrow
    \/ EngineCallbackAsync
    \/ RenderTick


\* ------------------------------------------------------------------
\* compileETag, compileQueryParser, compileTrust
\* ------------------------------------------------------------------
\* JavaScript values: the type tag decides which field is meaningful
Value(t, b, s, n, f, l) == [t |-> t, b |-> b, s |-> s, n |-> n, f |-> f, l |-> l]
Bool(b)   == Value("boolean", b, <<>>, 0, "", <<>>)
Str(s)    == Value("string", FALSE, s, 0, "", <<>>)
Number(n) == Value("number", FALSE, <<>>, n, "", <<>>)
Fn(f)     == Value("function", FALSE, <<>>, 0, f, <<>>)
Arr(l)    == Value("array", FALSE, <<>>, 0, "", l)
Undef     == Value("undefined", FALSE, <<>>, 0, "", <<>>)
Null      == Value("null", FALSE, <<>>, 0, "", <<>>)

Weak     == <<"w", "e", "a", "k">>
Strong   == <<"s", "t", "r", "o", "n", "g">>
Simple   == <<"s", "i", "m", "p", "l", "e">>
Extended == <<"e", "x", "t", "e", "n", "d", "e", "d">>

\* the functions the module itself returns
Wetag                    == Fn("wetag")
Etag                     == Fn("etag")
QuerystringParse         == Fn("querystring.parse")
ParseExtendedQueryString == Fn("parseExtendedQueryString")
\* function(){ return true }
TrustAll                 == Fn("trustAll")
\* function(a, i){ return i < val }
TrustHops(n)             == Value("function", FALSE, <<>>, n, "trustHops", <<>>)
\* proxyaddr.compile(list)
ProxyaddrCompile(l)      == Value("function", FALSE, <<>>, 0, "proxyaddr.compile", l)

Returned(v) == [threw |-> "none", ret |-> v]
Thrown(e)   == [threw |-> e, ret |-> Undef]
NoOutcome   == [threw |-> "none", ret |-> Null]

\* compileETag(val)
\* (faulty variant: an unknown value gives undefined instead of throwing)
CompileETagLenient(val) ==
    IF val.t = "function" THEN Returned(val)
    ELSE IF val = Bool(TRUE) \/ val = Str(Weak) THEN Returned(Wetag)
    ELSE IF val = Str(Strong) THEN Returned(Etag)
    ELSE Returned(Undef)
CompileETag(val) ==
    IF val.t = "function" THEN Returned(val)
    ELSE IF val = Bool(TRUE) \/ val = Str(Weak) THEN Returned(Wetag)
    ELSE IF val = Bool(FALSE) THEN Returned(Undef)
    ELSE IF val = Str(Strong) THEN Returned(Etag)
    ELSE Thrown("TypeError")

\* compileQueryParser(val)
CompileQueryParser(val) ==
    IF val.t = "function" THEN Returned(val)
    ELSE IF val = Bool(TRUE) \/ val = Str(Simple) THEN Returned(QuerystringParse)
    ELSE IF val = Bool(FALSE) THEN Returned(Undef)
    ELSE IF val = Str(Extended) THEN Returned(ParseExtendedQueryString)
    ELSE Thrown("TypeError")

\* String.prototype.split(','): cur is the piece being read
RECURSIVE SplitComma(_, _)
SplitComma(s, cur) ==
    IF s = <<>> THEN <<cur>>
    ELSE IF Head(s) = "," THEN <<cur>> \o SplitComma(Tail(s), <<>>)
    ELSE SplitComma(Tail(s), Append(cur, Head(s)))

\* val.split(',').map(function (v) { return v.trim() })
SplitTrim(s) == LET parts == SplitComma(s, <<>>) IN [i \in 1..Len(parts) |-> Trim(parts[i])]

\* val || [] for a value that is a boolean, an array, undefined or null
OrEmpty(val) == IF val.t = "array" THEN val.l ELSE <<>>

\* return i < val
\* (faulty variant: i <= val)
HopTrustedInclusive(i, n) == i <= n
HopTrusted(i, n) == i < n

\* compileTrust(val)
CompileTrust(val) ==
    IF val.t = "function" THEN Returned(val)
    ELSE IF val = Bool(TRUE) THEN Returned(TrustAll)
    ELSE IF val.t = "number" THEN Returned(TrustHops(val.n))
    ELSE IF val.t = "string" THEN Returned(ProxyaddrCompile(SplitTrim(val.s)))
    ELSE Returned(ProxyaddrCompile(OrEmpty(val)))

\* the answer of a predicate compileTrust has made, for address a at hop i;
\* a compiled address list trusts the addresses it lists
TrustAnswer(fn, a, i) ==
    IF fn.f = "trustAll" THEN TRUE
    ELSE IF fn.f = "trustHops" THEN HopTrusted(i, fn.n)
    ELSE IF fn.f = "proxyaddr.compile" THEN \E k \in 1..Len(fn.l) : fn.l[k] = a
    ELSE FALSE

Addr1 == <<"x">>
Addr2 == <<"y">>
Addresses == {Addr1, Addr2}

TrustStrings ==
    { <<>>, <<"x">>, <<"x", ",", "y">>, <<" ", "x", " ", ",", " ", "y">>,
      <<"y", ",">>, <<" ", "x", " ", "y", " ">> }

CompileInputs ==
    { Bool(TRUE), Bool(FALSE), Undef, Null, Fn("f"), Fn("g"),
      Str(Weak), Str(Strong), Str(Simple), Str(Extended),
      Str(<<"t", "r", "u", "e">>), Str(<<"W", "e", "a", "k">>),
      Arr(<<>>), Arr(<<Addr1>>), Arr(<<Addr2, Addr1>>) }
    \cup { Str(s) : s \in TrustStrings }
    \cup { Number(n) : n \in 0..MaxHop }

NoAnswer == [address |-> <<>>, hop |-> 0, trusted |-> FALSE, asked |-> FALSE]

CallCompileETag ==
    /\ cpc = "call"
    /\ cfun = "compileETag"
    /\ cout' = CompileETag(cin)
    /\ cpc' = "done"
    /\ UNCHANGED <<cfun, cin, canswer, paramVars, viewVars, renderVars>>

CallCompileQueryParser ==
    /\ cpc = "call"
    /\ cfun = "compileQueryParser"
    /\ cout' = CompileQueryParser(cin)
    /\ cpc' = "done"
    /\ UNCHANGED <<cfun, cin, canswer, paramVars, viewVars, renderVars>>

CallCompileTrust ==
    /\ cpc = "call"
    /\ cfun = "compileTrust"
    /\ cout' = CompileTrust(cin)
    /\ cpc' = "done"
    /\ UNCHANGED <<cfun, cin, canswer, paramVars, viewVars, renderVars>>

\* a predicate made by compileTrust is asked about address a at hop i
CallTrustPredicate ==
    /\ cpc = "done"
    /\ cfun = "compileTrust"
    /\ cout.ret.f \in {"trustAll", "trustHops", "proxyaddr.compile"}
    /\ \E a \in Addresses, i \in 0..MaxHop :
         canswer' = [address |-> a, hop |-> i, trusted |-> TrustAnswer(cout.ret, a, i),
                     asked |-> TRUE]
    /\ UNCHANGED <<cfun, cin, cout, cpc, paramVars, viewVars, renderVars>>

NextCompile ==
    \/ CallCompileETag
    \/ CallCompileQueryParser
    \/ CallCompileTrust
    \/ CallTrustPredicate

\* ------------------------------------------------------------------
\* Initial states and specifications
\* ------------------------------------------------------------------
ParamsIdle ==
    /\ str = <<>>
    /\ index = 0
    /\ ret = [value |-> <<>>, quality |-> Undefined, params |-> EmptyParams]
    /\ apc = "idle"

ViewIdle ==
    /\ engines = NoEngines
    /\ nViews = 0
    /\ views = {}
    /\ lastView = NoView
    /\ stats = <<>>
    /\ lastResult = "none"
    /\ lastCall = [name |-> <<>>, defaultEngine |-> <<>>, root |-> RootUndefined]
    /\ loaded = <<>>
    /\ allOk = TRUE

RenderIdle ==
    /\ rpc = "off"
    /\ sync = FALSE
    /\ tickQueue = <<>>
    /\ pendingAsync = <<>>
    /\ engineCalls = <<>>
    /\ callerCalls = <<>>

CompileIdle ==
    /\ cfun = "none"
    /\ cin = Undef
    /\ cout = NoOutcome
    /\ canswer = NoAnswer
    /\ cpc = "idle"

InitParams ==
    /\ str \in TypeStrings
    /\ index = 0
    /\ ret = [value |-> <<>>, quality |-> Undefined, params |-> EmptyParams]
    /\ apc = "call"
    /\ ViewIdle /\ RenderIdle /\ CompileIdle

InitView ==
    /\ engines \in {NoEngines, RegisteredB}
    /\ nViews = 0
    /\ views = {}
    /\ lastView = NoView
    /\ stats = <<>>
    /\ lastResult = "none"
    /\ lastCall = [name |-> <<>>, defaultEngine |-> <<>>, root |-> RootUndefined]
    /\ loaded = <<>>
    /\ allOk = TRUE
    /\ ParamsIdle /\ RenderIdle /\ CompileIdle

InitRender ==
    /\ rpc = "idle"
    /\ sync = FALSE
    /\ tickQueue = <<>>
    /\ pendingAsync = <<>>
    /\ engineCalls = <<>>
    /\ callerCalls = <<>>
    /\ ParamsIdle /\ ViewIdle /\ CompileIdle

InitCompile ==
    /\ cfun \in {"compileETag", "compileQueryParser", "compileTrust"}
    /\ cin \in CompileInputs
    /\ cout = NoOutcome
    /\ canswer = NoAnswer
    /\ cpc = "call"
    /\ ParamsIdle /\ ViewIdle /\ RenderIdle

SpecParams     == InitParams /\ [][NextParams]_vars
\* acceptParams is straight-line code: it keeps running until it returns
FairSpecParams == SpecParams /\ WF_vars(NextParams)
SpecView       == InitView /\ [][NextView]_vars
SpecRender     == InitRender /\ [][NextRender]_vars
\* the engine call ends (a call that never ends blocks the whole process) and
\* the process.nextTick queue is always served
FairSpecRender == SpecRender /\ WF_vars(EngineReturn \/ EngineThrow) /\ WF_vars(RenderTick)
SpecCompile    == InitCompile /\ [][NextCompile]_vars


\* ------------------------------------------------------------------
\* Properties of View.render
\* ------------------------------------------------------------------
\* C1: the caller's callback is never invoked while render is still
\* running the engine call: every invocation happens after render has
\* returned (or was left by an exception), whether the engine invoked its
\* callback inside the engine call or later.
C1_CallbackAfterRender ==
    \A k \in 1..Len(callerCalls) : callerCalls[k].during # "engine"

\* a callback the engine made inside the engine call has reached the caller
C1_Witness ==
    \E k \in 1..Len(callerCalls) :
        /\ engineCalls[callerCalls[k].id].during = "engine"
        /\ callerCalls[k].during = "returned"

Delivered(id) == \E k \in 1..Len(callerCalls) : callerCalls[k].id = id
Queued(id)    == \E k \in 1..Len(tickQueue) : tickQueue[k].id = id

C10_Safety ==
    /\ \A k \in 1..Len(callerCalls) :
         /\ callerCalls[k].id \in 1..Len(engineCalls)
         /\ Len(callerCalls[k].args) = Len(engineCalls[callerCalls[k].id].args)
         /\ \A i \in 1..Len(callerCalls[k].args) :
              callerCalls[k].args[i] = engineCalls[callerCalls[k].id].args[i]
    /\ \A j, k \in 1..Len(callerCalls) :
         callerCalls[j].id = callerCalls[k].id => j = k
    /\ \A id \in 1..Len(engineCalls) : Delivered(id) # Queued(id)

\* C10: every invocation of the engine's callback leads to exactly one
\* invocation of the caller's callback, with the same arguments in the
\* same positions, and the caller's callback is invoked for nothing else.
C10_ForwardedExactlyOnce ==
    /\ []C10_Safety
    /\ \A id \in 1..MaxCalls : (Len(engineCalls) >= id) ~> Delivered(id)

\* a deferred and a direct callback, each with two arguments, have both
\* reached the caller
C10_Witness ==
    \E j, k \in 1..Len(callerCalls) :
        /\ engineCalls[callerCalls[j].id].during = "engine"
        /\ engineCalls[callerCalls[k].id].during = "returned"
        /\ Len(callerCalls[j].args) >= 2
        /\ Len(callerCalls[k].args) >= 2


\* ------------------------------------------------------------------
\* Properties of the View constructor and of lookup
\* ------------------------------------------------------------------
\* the roots a lookup goes through, first to last
RootList(root) == IF root.kind = "string" THEN <<root.one>> ELSE root.many

\* a path written out: its components with '/' between them
RECURSIVE PathText(_)
PathText(p) ==
    IF p = <<>> THEN <<>>
    ELSE IF Len(p) = 1 THEN Head(p)
    ELSE Head(p) \o <<"/">> \o PathText(Tail(p))

\* the candidates below the given roots, written out, in the order of
\* preference: <root>/<file>, then <root>/<file without ext>/index<ext>,
\* root by root
ExpectedCandidates(roots, file, ext) ==
    [k \in 1..(2 * Len(roots)) |->
        IF k % 2 = 1
        THEN PathText(roots[(k + 1) \div 2]) \o <<"/">> \o file
        ELSE PathText(roots[k \div 2]) \o <<"/">> \o SubSeq(file, 1, Len(file) - Len(ext))
                 \o <<"/">> \o IndexName \o ext]

\* C2: lookup goes through the roots in the order given (one root given as
\* a string counts as a list of one), within a root tries <root>/<file>
\* before <root>/<file without ext>/index<ext>, returns the first candidate
\* that is a regular file without examining anything after it, and returns
\* undefined when no candidate of any root is a regular file.
C2_LookupFirstMatch ==
    lastResult = "ok" =>
        LET expected == ExpectedCandidates(RootList(lastCall.root),
                                           lastView.fileName, lastView.ext)
            n == Len(stats)
        IN  /\ n <= Len(expected)
            /\ \A k \in 1..n : PathText(stats[k].path) = expected[k]
            /\ \A k \in 1..(n - 1) : stats[k].kind # "file"
            /\ lastView.path # NoPath =>
                 /\ n > 0
                 /\ stats[n].kind = "file"
                 /\ stats[n].path = lastView.path
            /\ lastView.path = NoPath =>
                 /\ n = Len(expected)
                 /\ \A k \in 1..n : stats[k].kind # "file"

\* the view was found as the index file of the second root, after a
\* directory was met where the first root's file was looked for
C2_Witness ==
    /\ lastResult = "ok"
    /\ lastCall.root = RootArray(<<R1, R2>>)
    /\ Len(stats) = 4
    /\ stats[1].kind = "dir"
    /\ lastView.path = R2 \o << <<"a">>, IndexName \o <<".", "a">> >>

Count(seq, e) == Cardinality({k \in 1..Len(seq) : seq[k] = e})

C3_State ==
    /\ allOk => \A k \in 1..Len(loaded) : Count(loaded, loaded[k]) = 1
    /\ \A v \in views : v[1] \in DOMAIN engines /\ engines[v[1]] = v[2]
    /\ lastResult = "ok" => lastView.engine = engines[lastView.ext]

C3_Step ==
    /\ \A e \in DOMAIN engines : e \in DOMAIN engines' /\ engines'[e] = engines[e]
    /\ loaded' # loaded =>
         /\ Len(loaded') = Len(loaded) + 1
         /\ SubSeq(loaded', 1, Len(loaded)) = loaded
         /\ loaded'[Len(loaded')] \notin DOMAIN engines
         /\ lastResult' = "ok" =>
              /\ loaded'[Len(loaded')] = lastView'.ext
              /\ engines'[lastView'.ext] = RequireModule(Tail(lastView'.ext)).fn
    /\ (lastResult' = "ok" /\ nViews' # nViews /\ lastView'.ext \in DOMAIN engines) =>
         loaded' = loaded

\* C3: a construction loads the engine module only when the cache has no
\* entry for the extension, and then stores the module's __express under
\* it; an entry of the cache is never overwritten.  After successful
\* constructions only, no extension has been loaded twice, and every
\* view's engine is the cache entry for its extension.
C3_LazyCachedEngines == []C3_State /\ [][C3_Step]_vars

\* two views of the same extension were built and the module was loaded once
C3_Witness ==
    /\ nViews = 2
    /\ allOk
    /\ views = { << <<".", "a">>, "a.__express" >> }
    /\ loaded = << <<".", "a">> >>

\* C5: when a construction fails because no default engine is configured
\* for a name without extension, or because the loaded module has no
\* function __express, the engines cache is as it was before and no path
\* has been stat'ed; in the first case no module has been loaded either.
C5_FailedConstructionLeavesCache ==
    [][ (nViews' # nViews /\ lastResult' \in {"ErrNoDefaultEngine", "ErrNoViewEngine"}) =>
            /\ engines' = engines
            /\ stats' = <<>>
            /\ lastResult' = "ErrNoDefaultEngine" => loaded' = loaded ]_vars

\* a construction failed on a module without __express after another
\* construction had filled the cache
C5_Witness ==
    /\ lastResult = "ErrNoViewEngine"
    /\ nViews = 2
    /\ DOMAIN engines = { <<".", "a">> }

\* the name has an extension: its last component has a '.' that is not
\* the first character of the component
HasExtension(name) ==
    \E i \in 2..Len(name) :
        /\ name[i] = "."
        /\ name[i - 1] # "/"
        /\ \A k \in i..Len(name) : name[k] # "/"
\* the text of the name from its last '.'
ExtensionOf(name) ==
    LET i == CHOOSE j \in 1..Len(name) :
                 name[j] = "." /\ \A k \in (j + 1)..Len(name) : name[k] # "."
    IN  SubSeq(name, i, Len(name))

\* C9: for a name with an extension, ext is that extension and the file
\* looked up is the name itself, whatever the default engine; for a name
\* without one, ext is the default engine with a '.' put in front exactly
\* when it does not start with one, and the file looked up is name + ext.
\* The view's engine is the cache entry for ext.
C9_ExtAndFileName ==
    lastResult = "ok" =>
        LET name == lastCall.name
            de   == lastCall.defaultEngine
        IN  /\ HasExtension(name) =>
                 /\ lastView.ext = ExtensionOf(name)
                 /\ lastView.fileName = name
            /\ ~HasExtension(name) =>
                 /\ de[1] = "." => lastView.ext = de
                 /\ de[1] # "." => lastView.ext = <<".">> \o de
                 /\ lastView.fileName = name \o lastView.ext
            /\ lastView.engine = engines[lastView.ext]
            /\ stats # <<>> =>
                 PathText(stats[1].path) =
                     PathText(RootList(lastCall.root)[1]) \o <<"/">> \o lastView.fileName

\* a name with an extension was built although a default engine was set,
\* and its file was looked up
C9_Witness ==
    /\ lastResult = "ok"
    /\ lastCall.name = <<"a", ".", "a">>
    /\ lastCall.defaultEngine = <<".", "b">>
    /\ lastView.ext = <<".", "a">>
    /\ stats # <<>>


\* ------------------------------------------------------------------
\* Properties of normalizeType / acceptParams
\* ------------------------------------------------------------------
\* the ';'-separated segments of s after the first one, as 0-based
\* <<from, to>> with to exclusive
SemiPositions(s) == {i \in 0..(Len(s) - 1) : s[i + 1] = ";"}
NextSemi(s, a) ==
    {c \in SemiPositions(s) \cup {Len(s)} :
        c > a /\ \A d \in SemiPositions(s) : ~(a < d /\ d < c)}
ParamSegments(s) == UNION { { <<a + 1, b>> : b \in NextSemi(s, a) } : a \in SemiPositions(s) }

\* the segments of the form key=value, with their key and value
EqualsIn(s, seg) == {i \in seg[1]..(seg[2] - 1) : s[i + 1] = "="}
FirstEquals(s, seg) == CHOOSE i \in EqualsIn(s, seg) : \A j \in EqualsIn(s, seg) : i <= j
KeyValueSegments(s) == {seg \in ParamSegments(s) : EqualsIn(s, seg) # {}}
KeyOf(s, seg)   == Trim(SubSeq(s, seg[1] + 1, FirstEquals(s, seg)))
ValueOf(s, seg) == Trim(SubSeq(s, FirstEquals(s, seg) + 2, seg[2]))

\* the last key=value segment with the given key
LastWithKey(s, key) ==
    CHOOSE seg \in KeyValueSegments(s) :
        /\ KeyOf(s, seg) = key
        /\ \A other \in KeyValueSegments(s) : KeyOf(s, other) = key => other[1] <= seg[1]

ExpectedValue(s) ==
    IF SemiPositions(s) = {} THEN Trim(s)
    ELSE Trim(SubSeq(s, 1, CHOOSE i \in SemiPositions(s) : \A j \in SemiPositions(s) : i <= j))

ExpectedQuality(s) ==
    IF \E seg \in KeyValueSegments(s) : KeyOf(s, seg) = <<"q">>
    THEN ParseFloat(ValueOf(s, LastWithKey(s, <<"q">>)))
    ELSE Num(1)

ExpectedParams(s) ==
    [key \in {KeyOf(s, seg) : seg \in KeyValueSegments(s)} \ {<<"q">>} |->
        ValueOf(s, LastWithKey(s, key))]

\* C6: for a type that contains '/', normalizeType returns: value, the
\* trimmed text before the first ';'; quality, 1 unless a parameter q is
\* present and then the parsed value of the last one; params, every other
\* key=value segment under its trimmed key with its trimmed value, the
\* last one winning, and nothing for q or for a segment without '='.
C6_AcceptParamsResult ==
    (apc = "done" /\ HasSlash(str)) =>
        /\ ret.value = ExpectedValue(str)
        /\ ret.quality = ExpectedQuality(str)
        /\ ret.params = ExpectedParams(str)

\* the same for every type none of whose parameters is named __proto__
C6_ResultExceptProto ==
    (apc = "done" /\ HasSlash(str) /\ ProtoKey \notin DOMAIN ExpectedParams(str)) =>
        /\ ret.value = ExpectedValue(str)
        /\ ret.quality = ExpectedQuality(str)
        /\ ret.params = ExpectedParams(str)

\* C7: acceptParams ends on every string, and each iteration of its loop,
\* the one that skips a segment without '=' included, either moves the scan
\* index forward or leaves the loop; the index never passes length + 1.
C7_ScanAdvances ==
    /\ [][apc = "loop" => (index' > index \/ apc' = "done")]_vars
    /\ [](index <= Len(str) + 1)
    /\ <>(apc = "done")

\* a string with a segment without '=' between two parameters was read to
\* its end: the loop has skipped that segment and has read both parameters
C7_Witness ==
    /\ apc = "done"
    /\ str = <<"1", "/", "1", ";", " ", "1", " ", "=", " ", "1", "1", " ", ";", "1", "=", "q">>
    /\ index = Len(str) + 1
    /\ DOMAIN ret.params = {<<"1">>}


\* ------------------------------------------------------------------
\* Properties of compileETag, compileQueryParser, compileTrust
\* ------------------------------------------------------------------
\* the settings each function accepts besides a function
AcceptedSettings(fun) ==
    IF fun = "compileETag"
    THEN {Bool(TRUE), Bool(FALSE), Str(Weak), Str(Strong)}
    ELSE {Bool(TRUE), Bool(FALSE), Str(Simple), Str(Extended)}

\* the outcome of the function for the setting that true stands for
OutcomeOfDefault(fun) ==
    IF fun = "compileETag" THEN CompileETag(Str(Weak)) ELSE CompileQueryParser(Str(Simple))

\* C4: compileETag and compileQueryParser throw a TypeError exactly for
\* the values that are neither a function nor an accepted setting; a
\* function comes back unchanged, false gives undefined, true gives what
\* 'weak' (resp. 'simple') gives, and every other accepted setting gives
\* a function.
C4_CompileSettings ==
    (cpc = "done" /\ cfun \in {"compileETag", "compileQueryParser"}) =>
        /\ (cout.threw = "TypeError") <=>
               (cin.t # "function" /\ cin \notin AcceptedSettings(cfun))
        /\ cout.threw \in {"none", "TypeError"}
        /\ cin.t = "function" => cout.ret = cin
        /\ cin = Bool(FALSE) => cout.ret = Undef
        /\ cin = Bool(TRUE) => cout = OutcomeOfDefault(cfun)
        /\ cin \in AcceptedSettings(cfun) \ {Bool(FALSE)} =>
               (cout.ret.t = "function" /\ cout.ret # cin)

\* compileETag has thrown for the string "true", which is no setting
C4_Witness ==
    /\ cpc = "done"
    /\ cfun = "compileETag"
    /\ cin = Str(<<"t", "r", "u", "e">>)
    /\ cout.threw = "TypeError"

\* the parts of s between its commas, trimmed, first to last
CommaPositions(s) == {i \in 1..Len(s) : s[i] = ","}
NthComma(s, n) ==
    IF n = 0 THEN 0
    ELSE IF n > Cardinality(CommaPositions(s)) THEN Len(s) + 1
    ELSE CHOOSE i \in CommaPositions(s) :
             Cardinality({j \in CommaPositions(s) : j < i}) = n - 1
ExpectedAddressList(s) ==
    [n \in 1..(Cardinality(CommaPositions(s)) + 1) |->
        Trim(SubSeq(s, NthComma(s, n - 1) + 1, NthComma(s, n) - 1))]

\* C8: compileTrust returns a function unchanged; for true a predicate
\* that trusts every address at every hop; for a number n a predicate that
\* trusts hop i exactly when i < n; for a string the compiled list of its
\* comma-separated parts, each trimmed; for false or a missing value the
\* compiled empty list, which trusts nothing.
C8_CompileTrust ==
    (cpc = "done" /\ cfun = "compileTrust") =>
        /\ cout.threw = "none"
        /\ cin.t = "function" => cout.ret = cin
        /\ cin = Bool(TRUE) => (canswer.asked => canswer.trusted)
        /\ cin.t = "number" => (canswer.asked => (canswer.trusted <=> canswer.hop < cin.n))
        /\ cin.t = "string" =>
               /\ cout.ret.f = "proxyaddr.compile"
               /\ cout.ret.l = ExpectedAddressList(cin.s)
        /\ cin \in {Bool(FALSE), Undef} =>
               /\ cout.ret.f = "proxyaddr.compile"
               /\ cout.ret.l = <<>>
               /\ canswer.asked => ~canswer.trusted

\* the predicate compiled from the hop count 1 was asked about hop 1 and
\* did not trust it
C8_Witness ==
    /\ cpc = "done"
    /\ cfun = "compileTrust"
    /\ cin = Number(1)
    /\ canswer.asked
    /\ canswer.hop = 1
    /\ ~canswer.trusted

====
